---- MODULE Spec2Model ----
(***************************************************************************)
(* Model of the Google Drive helpers of the TrashManagement repository:    *)
(*   utils/drive_utils.py  (get-or-create resolver, upload, download)      *)
(*   utils/drive_util.py   (strict resolver, dataset-relative paths,       *)
(*                          download, upload, delete, move)                *)
(*                                                                         *)
(* Paths and entry names are Python strings, modelled as sequences of      *)
(* one-character strings so that strip/split/startswith/slicing and        *)
(* os.path.split/splitext/join are computed character by character as      *)
(* Python computes them.                                                   *)
(*                                                                         *)
(* The remote store is a map  id -> entry.  It stores the name it is       *)
(* given, answers a `name='..'` query by exact comparison, returns the     *)
(* matches of a list query in no particular order (the code passes no      *)
(* orderBy, so "the first returned" is any match), deletes permanently,    *)
(* and refuses to transfer media to or from a folder (HttpError).          *)
(***************************************************************************)
EXTENDS Integers, Sequences, FiniteSets, TLC

VARIABLES drive,    \* remote store: id -> [name, mimeType, parents, trashed, content]
          nextId,   \* next id the remote store hands out
          last,     \* the last call: operation, arguments, outcome
          race,     \* concurrent callers of utils/drive_utils.py: caller -> frame
          clf       \* the classifier: class names loaded, predicted index, result

vars == <<drive, nextId, last, race, clf>>

(***************************************************************************)
(* Bounds                                                                  *)
(***************************************************************************)
MaxId == 4          \* ids the remote store may hand out (1..MaxId)

(***************************************************************************)
(* Python strings                                                          *)
(***************************************************************************)
Empty == <<>>
Sl == <<"/">>

UpperChars == <<"A","B","C","D","E","F","G","H","I","J","K","L","M",
                "N","O","P","Q","R","S","T","U","V","W","X","Y","Z">>
LowerChars == <<"a","b","c","d","e","f","g","h","i","j","k","l","m",
                "n","o","p","q","r","s","t","u","v","w","x","y","z">>

ToLower ==
    [c \in {UpperChars[k] : k \in 1..26} |->
        LowerChars[CHOOSE k \in 1..26 : UpperChars[k] = c]]

LowerChar(c) == IF c \in DOMAIN ToLower THEN ToLower[c] ELSE c

\* str.lower()
lower(s) == [i \in 1..Len(s) |-> LowerChar(s[i])]

\* s[k:]  (k is Python's 0-based start)
SliceFrom(s, k) == IF k >= Len(s) THEN Empty ELSE SubSeq(s, k + 1, Len(s))

\* s[:k]
SliceTo(s, k) == IF k <= 0 THEN Empty ELSE SubSeq(s, 1, IF k > Len(s) THEN Len(s) ELSE k)

\* str.startswith(prefix)
startswith(s, prefix) ==
    Len(s) >= Len(prefix) /\ SubSeq(s, 1, Len(prefix)) = prefix

RECURSIVE lstrip(_)
lstrip(s) == IF s # Empty /\ Head(s) = "/" THEN lstrip(Tail(s)) ELSE s

RECURSIVE rstrip(_)
rstrip(s) == IF s # Empty /\ s[Len(s)] = "/" THEN rstrip(SliceTo(s, Len(s) - 1)) ELSE s

\* str.strip("/")
strip(s) == rstrip(lstrip(s))

\* str.rfind(c) + 1: the 1-based index of the last c, 0 when there is none
rfind1(s, c) ==
    LET idx == {i \in 1..Len(s) : s[i] = c}
    IN  IF idx = {} THEN 0 ELSE CHOOSE i \in idx : \A j \in idx : j <= i

\* str.split("/"): every separator splits, so "" gives [""] and "a//b" gives ["a","","b"]
RECURSIVE split(_)
split(s) ==
    LET idx == {i \in 1..Len(s) : s[i] = "/"}
    IN  IF idx = {} THEN <<s>>
        ELSE LET i == CHOOSE k \in idx : \A j \in idx : k <= j
             IN  <<SliceTo(s, i - 1)>> \o split(SliceFrom(s, i))

\* os.path.split(p) = (head, tail)
os_path_split(p) ==
    LET i    == rfind1(p, "/")
        head == SliceTo(p, i)
        tail == SliceFrom(p, i)
    IN  <<IF head # Empty /\ (\E k \in 1..Len(head) : head[k] # "/")
          THEN rstrip(head) ELSE head,
          tail>>

\* os.path.dirname(p)
os_path_dirname(p) == os_path_split(p)[1]

\* os.path.splitext(p)[1]: the extension of the last component, leading dots ignored
splitext_ext(p) ==
    LET sep == rfind1(p, "/")
        dot == rfind1(p, ".")
    IN  IF dot > sep /\ (\E k \in (sep + 1)..(dot - 1) : p[k] # ".")
        THEN SliceFrom(p, dot - 1)
        ELSE Empty

\* os.path.join(a, b)
os_path_join(a, b) ==
    IF startswith(b, Sl) THEN b
    ELSE IF a = Empty \/ a[Len(a)] = "/" THEN a \o b
    ELSE a \o Sl \o b

(***************************************************************************)
(* Names used by the code and by the calls                                 *)
(***************************************************************************)
dataset == <<"d","a","t","a","s","e","t">>
Metal   == <<"M","e","t","a","l">>
metal   == <<"m","e","t","a","l">>
Zinc    == <<"Z","i","n","c">>
x_jpg   == <<"x",".","j","p","g">>
README  == <<"R","E","A","D","M","E">>

(***************************************************************************)
(* The remote store                                                        *)
(***************************************************************************)
Root == 0            \* "root" / DRIVE_ROOT (DRIVE_FOLDER_ID unset)
None == -1           \* Python's None where an id is expected

FolderMime == "application/vnd.google-apps.folder"
FileMime   == "application/octet-stream"
NoContent  == "none"

Entry(name, mime, parent, content) ==
    [name |-> name, mimeType |-> mime, parents |-> {parent},
     trashed |-> FALSE, content |-> content]

\* files().create(body=..., media_body=...): a fresh id, the entry stored as sent
Create(t, n, e) == [i \in (DOMAIN t) \cup {n} |-> IF i = n THEN e ELSE t[i]]

\* q: '<parent>' in parents and mimeType='...folder' and trashed=false
ListFolders(t, parent) ==
    {i \in DOMAIN t : /\ parent \in t[i].parents
                      /\ t[i].mimeType = FolderMime
                      /\ ~t[i].trashed}

\* q: mimeType='...folder' and name='<name>' and '<parent>' in parents and trashed=false
ListFoldersNamed(t, name, parent) ==
    {i \in ListFolders(t, parent) : t[i].name = name}

\* q: name='<name>' and '<parent>' in parents and trashed=false
ListNamed(t, name, parent) ==
    {i \in DOMAIN t : /\ parent \in t[i].parents
                      /\ t[i].name = name
                      /\ ~t[i].trashed}

\* q: '<parent>' in parents and trashed=false
ListChildren(t, parent) ==
    {i \in DOMAIN t : parent \in t[i].parents /\ ~t[i].trashed}

\* the entries below id (files().delete of a folder removes them with it)
RECURSIVE Descendants(_, _, _)
Descendants(t, ids, k) ==
    LET more == ids \cup {i \in DOMAIN t : t[i].parents \cap ids # {}}
    IN  IF k = 0 \/ more = ids THEN ids ELSE Descendants(t, more, k - 1)

\* files().delete(fileId=id)
Delete(t, id) ==
    LET gone == Descendants(t, {id}, Cardinality(DOMAIN t))
    IN  [i \in (DOMAIN t) \ gone |-> t[i]]

(***************************************************************************)
(* The outcome of a call: the exception raised ("none" for a normal        *)
(* return), the value returned, and the remote store it leaves.            *)
(***************************************************************************)
Res(exc, ret, t, n, looked) ==
    [exc |-> exc, ret |-> ret, t |-> t, n |-> n, looked |-> looked,
     rel |-> Empty, entry |-> None, local |-> {}, cats |-> <<>>]

(***************************************************************************)
(* utils/drive_utils.py: get_folder_id (get or create)                     *)
(***************************************************************************)
RECURSIVE utils_walk(_, _, _, _, _)
utils_walk(t, n, parts, current_parent, looked) ==
    IF parts = <<>> THEN {Res("none", current_parent, t, n, looked)}
    ELSE LET part  == Head(parts)
             files == ListFoldersNamed(t, part, current_parent)
         IN  IF files # {}
             THEN UNION {utils_walk(t, n, Tail(parts), f, Append(looked, part)) : f \in files}
             ELSE utils_walk(Create(t, n, Entry(part, FolderMime, current_parent, NoContent)),
                             n + 1, Tail(parts), n, Append(looked, part))

utils_get_folder_id(t, n, path, parent_id) ==
    utils_walk(t, n, split(strip(path)),
               IF parent_id = None THEN Root ELSE parent_id, <<>>)

(***************************************************************************)
(* utils/drive_util.py: get_folder_id (strict, case-insensitive)           *)
(***************************************************************************)
RECURSIVE util_walk(_, _, _, _, _)
util_walk(t, n, parts, current_parent, looked) ==
    IF parts = <<>> THEN {Res("none", current_parent, t, n, looked)}
    ELSE LET part  == Head(parts)
             items == ListFolders(t, current_parent)
             match == {i \in items : lower(t[i].name) = lower(part)}
         IN  IF match = {}
             THEN {Res("FileNotFoundError", None, t, n, Append(looked, part))}
             ELSE UNION {util_walk(t, n, Tail(parts), m, Append(looked, part)) : m \in match}

\* kwargs: the keyword arguments of the call other than parent_id; the
\* function is defined as get_folder_id(folder_path, parent_id=DRIVE_ROOT)
util_get_folder_id(t, n, folder_path, parent_id, kwargs) ==
    IF kwargs # {} THEN {Res("TypeError", None, t, n, <<>>)}
    ELSE util_walk(t, n, split(strip(folder_path)), parent_id, <<>>)

\* kwargs: the keyword arguments of the call; the function is defined as
\* resolve_dataset_path(drive_path)
resolve_dataset_path(t, n, drive_path, kwargs) ==
    IF kwargs # {} THEN {Res("TypeError", None, t, n, <<>>)}
    ELSE IF ~startswith(drive_path, dataset) THEN {Res("ValueError", None, t, n, <<>>)}
    ELSE LET rel_path        == strip(SliceFrom(drive_path, Len(dataset \o Sl)))
             dataset_folders == ListFoldersNamed(t, dataset, Root)
         IN  IF dataset_folders = {}
             THEN {Res("FileNotFoundError", None, t, n, <<>>)}
             ELSE {[Res("none", d, t, n, <<>>) EXCEPT !.rel = rel_path] : d \in dataset_folders}

(***************************************************************************)
(* The local file system written by one call: a set of                     *)
(* <<path, "dir" | "file", content>>; it is empty when the call starts.    *)
(***************************************************************************)
EmptyFile == "empty"

IsDir(local, p)  == \E e \in local : e[1] = p /\ e[2] = "dir"
IsFile(local, p) == \E e \in local : e[1] = p /\ e[2] = "file"

\* os.makedirs(p, exist_ok=True)
MakeDirs(local, p) == local \cup {<<p, "dir", NoContent>>}

\* io.FileIO(p, "wb") followed by the chunks written
WriteFile(local, p, c) == {e \in local : e[1] # p} \cup {<<p, "file", c>>}

WithLocal(r, local) == [r EXCEPT !.local = local]

(***************************************************************************)
(* download_from_drive, the same text in both files but for the resolver   *)
(* it calls: impl = "utils" is utils/drive_utils.py (get or create),       *)
(* impl = "util" is utils/drive_util.py (strict).  depth counts the Python *)
(* frames left to the recursion.                                           *)
(***************************************************************************)
GetFolder(impl, t, n, path) ==
    IF impl = "utils" THEN utils_get_folder_id(t, n, path, None)
    ELSE util_get_folder_id(t, n, path, Root, {})

RECURSIVE download_from_drive(_, _, _, _, _, _, _)
RECURSIVE download_items(_, _, _, _, _, _, _, _)

\* the loop  for item in results.get("files", [])  over the items still to
\* visit; the store lists the children in the order of their creation
download_items(impl, t, n, drive_path, local_path, items, local, depth) ==
    IF items = {} THEN {WithLocal(Res("none", None, t, n, <<>>), local)}
    ELSE LET i    == CHOOSE k \in items : \A j \in items : k <= j
             name == t[i].name
             dest == os_path_join(local_path, name)
         IN  IF t[i].mimeType = FolderMime
             THEN UNION {
                    IF s.exc # "none" THEN {s}
                    ELSE download_items(impl, s.t, s.n, drive_path, local_path,
                                        items \ {i}, s.local, depth)
                    : s \in download_from_drive(impl, t, n, drive_path \o Sl \o name,
                                                dest, local, depth - 1)}
             ELSE IF dest[Len(dest)] = "/" \/ IsDir(local, dest)
                  THEN {WithLocal(Res("IsADirectoryError", None, t, n, <<>>), local)}
                  ELSE download_items(impl, t, n, drive_path, local_path, items \ {i},
                                      WriteFile(local, dest, t[i].content), depth)

download_from_drive(impl, t, n, drive_path, local_path, local, depth) ==
    IF depth = 0 THEN {WithLocal(Res("RecursionError", None, t, n, <<>>), local)}
    ELSE IF splitext_ext(drive_path) = Empty
    THEN \* folder case
         UNION {
           IF f.exc # "none" THEN {WithLocal(f, local)}
           ELSE IF local_path = Empty
                THEN {WithLocal(Res("FileNotFoundError", None, f.t, f.n, f.looked), local)}
           ELSE IF IsFile(local, local_path)
                THEN {WithLocal(Res("FileExistsError", None, f.t, f.n, f.looked), local)}
           ELSE download_items(impl, f.t, f.n, drive_path, local_path,
                               ListChildren(f.t, f.ret), MakeDirs(local, local_path), depth)
           : f \in GetFolder(impl, t, n, drive_path)}
    ELSE \* file case
         LET folder_path == os_path_split(drive_path)[1]
             filename    == os_path_split(drive_path)[2]
             folders     == IF folder_path # Empty THEN GetFolder(impl, t, n, folder_path)
                            ELSE {Res("none", Root, t, n, <<>>)}
         IN  UNION {
               IF f.exc # "none" THEN {WithLocal(f, local)}
               ELSE LET files == ListNamed(f.t, filename, f.ret)
                        made  == IF os_path_dirname(local_path) = Empty THEN local
                                 ELSE MakeDirs(local, os_path_dirname(local_path))
                    IN  IF files = {}
                        THEN {WithLocal(Res("none", None, f.t, f.n, f.looked), local)}
                        ELSE IF os_path_dirname(local_path) = Empty
                        THEN {WithLocal(Res("FileNotFoundError", None, f.t, f.n, f.looked), local)}
                        ELSE IF IsDir(local, local_path)
                        THEN {WithLocal(Res("IsADirectoryError", None, f.t, f.n, f.looked), made)}
                        ELSE {IF f.t[file_id].mimeType = FolderMime
                              THEN [Res("HttpError", None, f.t, f.n, f.looked)
                                      EXCEPT !.local = WriteFile(made, local_path, EmptyFile),
                                             !.entry = file_id]
                              ELSE [Res("none", None, f.t, f.n, f.looked)
                                      EXCEPT !.local = WriteFile(made, local_path, f.t[file_id].content),
                                             !.entry = file_id]
                              : file_id \in files}
               : f \in folders}

MaxFrames == MaxId   \* a chain of MaxId folders needs MaxId frames

utils_download_from_drive(t, n, drive_path, local_path) ==
    download_from_drive("utils", t, n, drive_path, local_path, {}, MaxFrames)

util_download_from_drive(t, n, drive_path, local_path) ==
    download_from_drive("util", t, n, drive_path, local_path, {}, MaxFrames)

(***************************************************************************)
(* utils/drive_utils.py: upload_to_drive (no return statement)             *)
(***************************************************************************)
utils_upload_to_drive(t, n, content, drive_path) ==
    LET folder_path == os_path_split(drive_path)[1]
        filename    == os_path_split(drive_path)[2]
        folders     == IF folder_path # Empty THEN utils_get_folder_id(t, n, folder_path, None)
                       ELSE {Res("none", Root, t, n, <<>>)}
    IN  UNION {
          LET files == ListNamed(f.t, filename, f.ret)
          IN  IF files # {}
              THEN {IF f.t[file_id].mimeType = FolderMime
                    THEN [Res("HttpError", None, f.t, f.n, f.looked) EXCEPT !.entry = file_id]
                    ELSE [Res("none", None, [f.t EXCEPT ![file_id].content = content],
                              f.n, f.looked) EXCEPT !.entry = file_id]
                    : file_id \in files}
              ELSE {[Res("none", None,
                         Create(f.t, f.n, Entry(filename, FileMime, f.ret, content)),
                         f.n + 1, f.looked) EXCEPT !.entry = f.n]}
          : f \in folders}

(***************************************************************************)
(* utils/drive_util.py: upload_to_drive, delete_from_drive, move_in_drive  *)
(***************************************************************************)
util_upload_to_drive(t, n, content, drive_path) ==
    UNION {
      IF d.exc # "none" THEN {d}
      ELSE LET folder_path == os_path_split(d.rel)[1]
               filename    == os_path_split(d.rel)[2]
           IN  UNION {
                 IF f.exc # "none" THEN {f}
                 ELSE {[Res("none", f.n,
                            Create(f.t, f.n, Entry(filename, FileMime, f.ret, content)),
                            f.n + 1, f.looked) EXCEPT !.entry = f.n]}
                 : f \in util_get_folder_id(t, n, folder_path, d.ret, {"create"})}
      : d \in resolve_dataset_path(t, n, drive_path, {})}

RECURSIVE DeleteAll(_, _)
\* for file in files: try: files().delete(...)  except Exception: print
DeleteAll(t, files) ==
    IF files = {} THEN t
    ELSE LET f == CHOOSE i \in files : TRUE
         IN  DeleteAll(IF f \in DOMAIN t THEN Delete(t, f) ELSE t, files \ {f})

\* delete_from_drive without the refusal of the bare anchor: the folder that
\* resolve_dataset_path returned is deleted when nothing follows "dataset"
util_delete_from_drive_noguard(t, n, drive_path) ==
    UNION {
      IF d.exc # "none" THEN {d}
      ELSE IF d.rel = Empty THEN {Res("none", None, Delete(t, d.ret), n, <<>>)}
      ELSE LET parent_path == os_path_split(d.rel)[1]
               target_name == os_path_split(d.rel)[2]
           IN  UNION {
                 IF f.exc # "none" THEN {f}
                 ELSE LET files == ListNamed(t, target_name, f.ret)
                      IN  IF files = {} THEN {Res("none", None, t, n, f.looked)}
                          ELSE {Res("none", None, DeleteAll(t, files), n, f.looked)}
                 : f \in util_get_folder_id(t, n, parent_path, d.ret, {"create"})}
      : d \in resolve_dataset_path(t, n, drive_path, {})}

util_delete_from_drive(t, n, drive_path) ==
    UNION {
      IF d.exc # "none" THEN {d}
      ELSE IF d.rel = Empty THEN {Res("none", None, t, n, <<>>)}
      ELSE LET parent_path == os_path_split(d.rel)[1]
               target_name == os_path_split(d.rel)[2]
           IN  UNION {
                 IF f.exc # "none" THEN {f}
                 ELSE LET files == ListNamed(t, target_name, f.ret)
                      IN  IF files = {} THEN {Res("none", None, t, n, f.looked)}
                          ELSE {Res("none", None, DeleteAll(t, files), n, f.looked)}
                 : f \in util_get_folder_id(t, n, parent_path, d.ret, {"create"})}
      : d \in resolve_dataset_path(t, n, drive_path, {})}

util_move_in_drive(t, n, old_drive_path, new_drive_path) ==
    UNION {
      IF o.exc # "none" THEN {o}
      ELSE UNION {
        IF w.exc # "none" THEN {w}
        ELSE LET old_parent   == os_path_split(o.rel)[1]
                 old_filename == os_path_split(o.rel)[2]
                 new_parent   == os_path_split(w.rel)[1]
                 new_filename == os_path_split(w.rel)[2]
             IN  UNION {
                   IF op.exc # "none" THEN {op}
                   ELSE UNION {
                     IF np.exc # "none" THEN {np}
                     ELSE LET files == ListNamed(t, old_filename, op.ret)
                          IN  IF files = {} THEN {Res("none", None, t, n, np.looked)}
                              ELSE {[Res("none", file_id,
                                         [t EXCEPT ![file_id].parents =
                                                      (@ \ t[file_id].parents) \cup {np.ret},
                                                   ![file_id].name = new_filename],
                                         n, np.looked) EXCEPT !.entry = file_id]
                                    : file_id \in files}
                     : np \in util_get_folder_id(t, n, new_parent, w.ret, {"create"})}
                   : op \in util_get_folder_id(t, n, old_parent, o.ret, {})}
        : w \in resolve_dataset_path(t, n, new_drive_path, {"create"})}
      : o \in resolve_dataset_path(t, n, old_drive_path, {})}

(***************************************************************************)
(* Inputs of the calls                                                     *)
(***************************************************************************)
P_empty      == Empty                                   \* ""
P_dataset    == dataset                                 \* "dataset"
P_dataset_s  == dataset \o Sl                           \* "dataset/"
P_dataset_ss == dataset \o Sl \o Sl                     \* "dataset//"
P_datasetX   == dataset \o <<"X">>                      \* "datasetX"
P_datasets_x == dataset \o <<"s">> \o Sl \o <<"x">>     \* "datasets/x"
P_Metal      == dataset \o Sl \o Metal                  \* "dataset/Metal"
P_metal      == dataset \o Sl \o metal                  \* "dataset/metal"
P_ss_Metal   == dataset \o Sl \o Sl \o Metal            \* "dataset//Metal"
P_Zinc       == P_Metal \o Sl \o Zinc                   \* "dataset/Metal/Zinc"
P_x_jpg      == P_Zinc \o Sl \o x_jpg                   \* "dataset/Metal/Zinc/x.jpg"
P_README     == dataset \o Sl \o README                 \* "dataset/README"
P_outside    == Metal \o Sl \o x_jpg                    \* "Metal/x.jpg"

FolderPaths == {P_empty, P_Metal, P_metal, P_ss_Metal}
FilePaths   == {P_x_jpg, P_README}
\* the get-or-create resolver is also given a path at which a file may lie
ResolvePaths == FolderPaths \cup {P_README}
MoveOld     == {P_dataset, P_Metal, P_outside}
MoveNew     == {P_dataset_s, P_metal}
GuardPaths  == {P_dataset, P_dataset_s, P_dataset_ss, P_datasetX, P_datasets_x,
                P_Metal, P_x_jpg, P_outside}
DownloadPaths == {P_dataset, P_x_jpg, P_README}

L_out_jpg   == <<"o","u","t",".","j","p","g">>          \* "out.jpg"
L_out_x_jpg == <<"o","u","t">> \o Sl \o x_jpg           \* "out/x.jpg"
LocalPaths  == {L_out_jpg, L_out_x_jpg}

Contents == {"c1", "c2"}

(***************************************************************************)
(* utils/category_utils.py: get_categories.  A dict is a function from the *)
(* keys to the values, {} the empty function.  result[f["name"]] = ...     *)
(* keeps, of several folders with one name, the one listed last, which is  *)
(* any of them.                                                            *)
(***************************************************************************)
\* a scan_folder that lists every child, files included
RECURSIVE scan_folder_files(_, _)
scan_folder_files(t, folder_id) ==
    LET folders   == ListChildren(t, folder_id)
        names     == {t[i].name : i \in folders}
        sub(name) == UNION {scan_folder_files(t, i) : i \in {j \in folders : t[j].name = name}}
    IN  {result \in [names -> UNION {sub(name) : name \in names}] :
           \A name \in names : result[name] \in sub(name)}

RECURSIVE scan_folder(_, _)
scan_folder(t, folder_id) ==
    LET folders   == ListFolders(t, folder_id)
        names     == {t[i].name : i \in folders}
        sub(name) == UNION {scan_folder(t, i) : i \in {j \in folders : t[j].name = name}}
    IN  {result \in [names -> UNION {sub(name) : name \in names}] :
           \A name \in names : result[name] \in sub(name)}

get_categories(t, n) ==
    LET dataset_folders == ListFoldersNamed(t, dataset, Root)
    IN  IF dataset_folders = {} THEN {Res("none", None, t, n, <<>>)}
        ELSE UNION {{[Res("none", None, t, n, <<>>)
                        EXCEPT !.cats = result, !.entry = dataset_id]
                     : result \in scan_folder(t, dataset_id)}
                    : dataset_id \in dataset_folders}

(***************************************************************************)
(* State                                                                   *)
(***************************************************************************)
RootEntry ==
    [name |-> <<"T","r","a","s","h","A","I">>, mimeType |-> FolderMime,
     parents |-> {}, trashed |-> FALSE, content |-> NoContent]

Call(op, impl, path, path2, start, content, r) ==
    [op |-> op, impl |-> impl, path |-> path, path2 |-> path2, start |-> start,
     content |-> content, exc |-> r.exc, ret |-> r.ret, rel |-> r.rel,
     entry |-> r.entry, looked |-> r.looked, local |-> r.local, cats |-> r.cats]

NoCall == Call("init", "none", Empty, Empty, None, NoContent,
               Res("none", None, <<>>, 0, <<>>))

\* a caller of utils/drive_utils.py that has not started: its local variables
Callers == {1, 2}

IdleFrame ==
    [pc |-> "idle", op |-> "none", parts |-> <<>>, current_parent |-> None,
     filename |-> Empty, content |-> NoContent, file_id |-> None,
     saw |-> {}, made |-> {}]

RaceIdle == [c \in Callers |-> IdleFrame]

\* the classifier before classify_image has been called
ClfIdle ==
    [op |-> "none", class_names |-> <<>>, loaded |-> FALSE, class_idx |-> 0,
     exc |-> "none", result |-> <<>>, objects |-> <<>>]

\* the remote store before the first call: Root alone, Root with the dataset
\* anchor, or Root with a dataset folder that lies in the trash
Init ==
    /\ last = NoCall
    /\ race = RaceIdle
    /\ clf = ClfIdle
    /\ \/ drive = (Root :> RootEntry) /\ nextId = 2
       \/ drive = (Root :> RootEntry) @@ (1 :> Entry(dataset, FolderMime, Root, NoContent))
          /\ nextId = 2
       \/ drive = (Root :> RootEntry) @@
                  (1 :> [Entry(dataset, FolderMime, Root, NoContent) EXCEPT !.trashed = TRUE])
          /\ nextId = 2

\* the call ends with outcome r; the remote store hands out ids up to MaxId
Finish(r, call) ==
    /\ r.n <= MaxId + 1
    /\ drive' = r.t
    /\ nextId' = r.n
    /\ last' = call
    /\ UNCHANGED <<race, clf>>

\* the entries a caller may pass as parent_id: Root or the dataset anchor
Starts == {Root} \cup ListFoldersNamed(drive, dataset, Root)

(***************************************************************************)
(* One action per public function                                          *)
(***************************************************************************)
UtilsGetFolderId ==
    \E path \in ResolvePaths, start \in {None} :
      \E r \in utils_get_folder_id(drive, nextId, path, start) :
        Finish(r, Call("get_folder_id", "utils", path, Empty,
                       IF start = None THEN Root ELSE start, NoContent, r))

UtilGetFolderId ==
    \E path \in FolderPaths, start \in Starts :
      \E r \in util_get_folder_id(drive, nextId, path, start, {}) :
        Finish(r, Call("get_folder_id", "util", path, Empty, start, NoContent, r))

ResolveDatasetPath ==
    \E path \in GuardPaths :
      \E r \in resolve_dataset_path(drive, nextId, path, {}) :
        Finish(r, Call("resolve_dataset_path", "util", path, Empty, Root, NoContent, r))

UtilsUpload ==
    \E path \in FilePaths, c \in Contents :
      \E r \in utils_upload_to_drive(drive, nextId, c, path) :
        Finish(r, Call("upload_to_drive", "utils", path, Empty, Root, c, r))

UtilUpload ==
    \E path \in FilePaths, c \in Contents :
      \E r \in util_upload_to_drive(drive, nextId, c, path) :
        Finish(r, Call("upload_to_drive", "util", path, Empty, Root, c, r))

UtilsDownload ==
    \E path \in DownloadPaths, dest \in LocalPaths :
      \E r \in utils_download_from_drive(drive, nextId, path, dest) :
        Finish(r, Call("download_from_drive", "utils", path, dest, Root, NoContent, r))

UtilDownload ==
    \E path \in DownloadPaths, dest \in LocalPaths :
      \E r \in util_download_from_drive(drive, nextId, path, dest) :
        Finish(r, Call("download_from_drive", "util", path, dest, Root, NoContent, r))

UtilDelete ==
    \E path \in GuardPaths :
      \E r \in util_delete_from_drive(drive, nextId, path) :
        Finish(r, Call("delete_from_drive", "util", path, Empty, Root, NoContent, r))

UtilMove ==
    \E old \in MoveOld, new \in MoveNew :
      \E r \in util_move_in_drive(drive, nextId, old, new) :
        Finish(r, Call("move_in_drive", "util", old, new, Root, NoContent, r))

GetCategories ==
    \E r \in get_categories(drive, nextId) :
      Finish(r, Call("get_categories", "category", Empty, Empty, Root, NoContent, r))

Next ==
    \/ UtilsGetFolderId
    \/ UtilGetFolderId
    \/ ResolveDatasetPath
    \/ UtilsUpload
    \/ UtilUpload
    \/ UtilsDownload
    \/ UtilDownload
    \/ UtilDelete
    \/ UtilMove
    \/ GetCategories

Spec == Init /\ [][Next]_vars

(***************************************************************************)
(* Vocabulary of the properties                                            *)
(***************************************************************************)
\* the dataset anchor(s): non-trashed folders named "dataset" directly under Root
Anchors(t) == ListFoldersNamed(t, dataset, Root)

\* the non-empty segments of a path
Segments(path) == SelectSeq(split(path), LAMBDA x : x # Empty)

RECURSIVE Descend(_, _, _)
Descend(t, ids, segs) ==
    IF segs = <<>> THEN ids
    ELSE Descend(t,
                 UNION {IF Len(segs) = 1 THEN ListNamed(t, Head(segs), i)
                        ELSE ListFoldersNamed(t, Head(segs), i) : i \in ids},
                 Tail(segs))

\* the entries a path "dataset/<seg>/.../<leaf>" denotes: the folders below
\* the anchor followed by name, the leaf looked up by name
EntriesAt(t, drive_path) ==
    LET segs == Segments(drive_path)
    IN  IF Len(segs) < 2 \/ segs[1] # dataset THEN {}
        ELSE Descend(t, Anchors(t), Tail(segs))

\* a path that names something below the anchor
BelowAnchor(drive_path) ==
    Len(Segments(drive_path)) >= 2 /\ Segments(drive_path)[1] = dataset

\* the non-trashed File entries with the name and the parents of entry e
FilesLike(t, e) ==
    {i \in DOMAIN t : /\ t[i].mimeType # FolderMime
                      /\ t[i].name = t[e].name
                      /\ t[i].parents = t[e].parents
                      /\ ~t[i].trashed}

\* the first segment of a path
FirstSegment(path) == split(path)[1]

(***************************************************************************)
(* C1 (upsert law): two uploads in succession to the same remote path with *)
(* different contents, by the same implementation and with the dataset     *)
(* anchor in place, both complete; afterwards exactly one non-trashed File *)
(* entry with that name exists in that folder, it has the id the first     *)
(* upload left, and its content is the second content.                     *)
(***************************************************************************)
C1_UpsertLaw ==
    [][ ( /\ last.op = "upload_to_drive" /\ last'.op = "upload_to_drive"
          /\ last'.impl = last.impl /\ last'.path = last.path
          /\ last'.content # last.content
          /\ Anchors(drive) # {} )
        => ( /\ last.exc = "none" /\ last'.exc = "none"
             /\ last'.entry = last.entry
             /\ last'.entry \in DOMAIN drive'
             /\ drive'[last'.entry].content = last'.content
             /\ FilesLike(drive', last'.entry) = {last'.entry} ) ]_vars

(***************************************************************************)
(* C2 (idempotent folder creation): after the get-or-create resolver has   *)
(* resolved P, the next resolve of P from the same start returns the same  *)
(* id; a get-or-create resolve creates nothing, a strict resolve succeeds. *)
(***************************************************************************)
C2_IdempotentCreate ==
    [][ ( /\ last.op = "get_folder_id" /\ last.impl = "utils" /\ last.exc = "none"
          /\ last'.op = "get_folder_id"
          /\ last'.path = last.path /\ last'.start = last.start )
        => ( /\ last'.exc = "none"
             /\ last'.ret = last.ret
             /\ drive' = drive ) ]_vars

(***************************************************************************)
(* C3 (identity preserved across move): when an entry exists at dataset    *)
(* path A and B differs from A, move_in_drive(A, B) returns the id of that *)
(* entry; afterwards nothing is found at A and that entry is found at B.   *)
(***************************************************************************)
C3_MoveKeepsIdentity ==
    [][ ( /\ last'.op = "move_in_drive"
          /\ last'.path # last'.path2
          /\ BelowAnchor(last'.path2)
          /\ EntriesAt(drive, last'.path) # {} )
        => ( /\ last'.exc = "none"
             /\ last'.ret \in EntriesAt(drive, last'.path)
             /\ EntriesAt(drive', last'.path) = {}
             /\ EntriesAt(drive', last'.path2) = {last'.ret} ) ]_vars

(***************************************************************************)
(* C4 (best-effort delete): delete_from_drive of a path under the dataset  *)
(* anchor at which nothing exists (leaf or parents missing) returns        *)
(* normally and leaves the remote store unchanged.                         *)
(***************************************************************************)
C4_DeleteMissingReturns ==
    [][ ( /\ last'.op = "delete_from_drive"
          /\ Anchors(drive) # {}
          /\ BelowAnchor(last'.path)
          /\ EntriesAt(drive, last'.path) = {} )
        => ( last'.exc = "none" /\ drive' = drive ) ]_vars

(***************************************************************************)
(* C5 (round trip): an upload to P with content c followed by a download   *)
(* of P to dest, with the dataset anchor in place, both complete and leave *)
(* at dest a file with content c, and no other file.                       *)
(***************************************************************************)
C5_RoundTrip ==
    [][ ( /\ last.op = "upload_to_drive" /\ last'.op = "download_from_drive"
          /\ last'.path = last.path
          /\ Anchors(drive) # {} )
        => ( /\ last.exc = "none" /\ last'.exc = "none"
             /\ {e \in last'.local : e[2] = "file"}
                  = {<<last'.path2, "file", last.content>>}
             /\ ~IsDir(last'.local, last'.path2) ) ]_vars

(***************************************************************************)
(* C6 (auto-provisioning on write): on a store holding only Root and the   *)
(* dataset anchor, upload_to_drive(local, "dataset/Metal/Zinc/x.jpg")      *)
(* completes, creates exactly folder Metal under the anchor, then folder   *)
(* Zinc under Metal, then file x.jpg under Zinc, and returns the id of the *)
(* file.                                                                   *)
(***************************************************************************)
C6_AutoProvision ==
    [][ ( /\ last'.op = "upload_to_drive" /\ last'.path = P_x_jpg
          /\ Anchors(drive) # {}
          /\ DOMAIN drive = {Root} \cup Anchors(drive) )
        => ( /\ last'.exc = "none"
             /\ \E a \in Anchors(drive) :
                  \E m, z, f \in (DOMAIN drive') \ (DOMAIN drive) :
                    /\ (DOMAIN drive') \ (DOMAIN drive) = {m, z, f}
                    /\ m < z /\ z < f
                    /\ drive'[m] = Entry(Metal, FolderMime, a, NoContent)
                    /\ drive'[z] = Entry(Zinc, FolderMime, m, NoContent)
                    /\ drive'[f].name = x_jpg /\ drive'[f].parents = {z}
                    /\ drive'[f].mimeType # FolderMime
                    /\ drive'[f].content = last'.content
                    /\ last'.ret = f
             /\ \A i \in DOMAIN drive : drive'[i] = drive[i] ) ]_vars

(***************************************************************************)
(* C7 (dataset boundary guard): resolve_dataset_path raises the            *)
(* invalid-path error (ValueError) for every path whose first segment is   *)
(* not "dataset"; for a path whose first segment is "dataset" it returns   *)
(* the anchor and the rest of the path (or fails because the anchor is     *)
(* missing).                                                               *)
(***************************************************************************)
C7_BoundaryGuard ==
    last.op = "resolve_dataset_path" =>
        IF FirstSegment(last.path) = dataset
        THEN \/ last.exc = "FileNotFoundError" /\ Anchors(drive) = {}
             \/ /\ last.exc = "none"
                /\ last.ret \in Anchors(drive)
                /\ last.rel = strip(SliceFrom(last.path, Len(dataset)))
        ELSE last.exc = "ValueError"

(***************************************************************************)
(* C8 (anchor never created implicitly): while no folder named "dataset"   *)
(* lies directly under Root, every call given a path that starts with      *)
(* "dataset" fails, and no call creates such a folder.                     *)
(***************************************************************************)
C8_AnchorNeverCreated ==
    [][ Anchors(drive) = {}
        => ( /\ Anchors(drive') = {}
             /\ (startswith(last'.path, dataset) => last'.exc # "none") ) ]_vars

(***************************************************************************)
(* C9 (Root and anchor protected): a delete_from_drive or move_in_drive    *)
(* call, whatever its path arguments, leaves Root in the store and not     *)
(* trashed, and leaves every dataset anchor a non-trashed folder named     *)
(* "dataset" whose only parent is Root.                                    *)
(***************************************************************************)
Protected(t, a) ==
    /\ Root \in DOMAIN t /\ ~t[Root].trashed
    /\ a \in DOMAIN t
    /\ t[a].name = dataset /\ t[a].mimeType = FolderMime
    /\ t[a].parents = {Root} /\ ~t[a].trashed

C9_RootAndAnchorProtected ==
    [][ last'.op \in {"delete_from_drive", "move_in_drive"}
        => \A a \in Anchors(drive) : Protected(drive, a) => Protected(drive', a) ]_vars

\* delete_from_drive was given the bare anchor, in one of its spellings, on a
\* store that has the anchor, and it returned
C9_Witness ==
    /\ last.op = "delete_from_drive"
    /\ last.path \in {P_dataset, P_dataset_s, P_dataset_ss, P_datasetX}
    /\ last.exc = "none"
    /\ Anchors(drive) # {}

(***************************************************************************)
(* C10 (empty path resolution): get_folder_id of a path that is empty      *)
(* after trimming separators returns its start entry, queries nothing and  *)
(* creates nothing; no segment the resolver looks up is the empty string.  *)
(***************************************************************************)
C10_EmptyPath ==
    [][ last'.op = "get_folder_id"
        => ( /\ \A k \in DOMAIN last'.looked : last'.looked[k] # Empty
             /\ strip(last'.path) = Empty
                  => ( /\ last'.exc = "none"
                       /\ last'.ret = last'.start
                       /\ last'.looked = <<>>
                       /\ drive' = drive ) ) ]_vars

(***************************************************************************)
(* Further vocabulary                                                      *)
(***************************************************************************)
\* the entries a path denotes when it is walked from Root by name
EntriesFromRoot(t, path) == Descend(t, {Root}, Segments(path))

\* the last segment of a path
LeafName(path) == Segments(path)[Len(Segments(path))]

\* the folders a path "dataset/<seg>/.../<leaf>" names as the parent of its leaf
ParentFoldersAt(t, drive_path) ==
    LET segs == Segments(drive_path)
    IN  IF Len(segs) < 2 \/ segs[1] # dataset THEN {}
        ELSE {p \in Descend(t, Anchors(t), SubSeq(segs, 2, Len(segs) - 1)) :
                t[p].mimeType = FolderMime}

(***************************************************************************)
(* C11 (move of a missing source is an error): with the dataset anchor in  *)
(* place, move_in_drive(A, B) for a path A below the anchor at which no    *)
(* entry exists fails with the not-found error (FileNotFoundError); it     *)
(* does not return normally and fails with no other error.                 *)
(***************************************************************************)
C11_MoveMissingSource ==
    [][ ( /\ last'.op = "move_in_drive"
          /\ Anchors(drive) # {}
          /\ BelowAnchor(last'.path)
          /\ EntriesAt(drive, last'.path) = {} )
        => last'.exc = "FileNotFoundError" ]_vars

C14_DeleteOnlyTarget ==
    [][ ( /\ last'.op = "delete_from_drive"
          /\ EntriesAt(drive, last'.path) # {} )
        => ( /\ last'.exc = "none"
             /\ \E e \in EntriesAt(drive, last'.path) : drive' = Delete(drive, e) ) ]_vars

(***************************************************************************)
(* C15 (download is read-only and strict): download_from_drive, in either  *)
(* implementation, leaves the remote store unchanged, and when nothing     *)
(* exists at the remote path it fails with the not-found error             *)
(* (FileNotFoundError).                                                    *)
(***************************************************************************)
C15_DownloadReadOnlyStrict ==
    [][ last'.op = "download_from_drive"
        => ( /\ drive' = drive
             /\ EntriesFromRoot(drive, last'.path) = {}
                  => last'.exc = "FileNotFoundError" ) ]_vars

(***************************************************************************)
(* C16 (recursive folder download is complete): when the remote path names *)
(* one folder F, and in the subtree of F every name is non-empty and no    *)
(* two entries of one folder have the same name, download_from_drive of    *)
(* that path to dest completes, and afterwards dest is a directory, every  *)
(* sub-folder of F has its directory and every file of the subtree has a   *)
(* local file with its content at the same relative path.  Sibling folders *)
(* whose names differ only in letter case are within the case.             *)
(***************************************************************************)
\* the subtree of folder f can be laid out below a local directory
RECURSIVE PlainTree(_, _)
PlainTree(t, f) ==
    \A i \in ListChildren(t, f) :
      /\ t[i].name # Empty
      /\ \A j \in ListChildren(t, f) : t[j].name = t[i].name => j = i
      /\ t[i].mimeType = FolderMime => PlainTree(t, i)

\* local holds the tree of folder f at dest
RECURSIVE Mirrors(_, _, _, _)
Mirrors(local, t, f, dest) ==
    /\ IsDir(local, dest)
    /\ \A i \in ListChildren(t, f) :
         IF t[i].mimeType = FolderMime
         THEN Mirrors(local, t, i, dest \o Sl \o t[i].name)
         ELSE <<dest \o Sl \o t[i].name, "file", t[i].content>> \in local

C16_RecursiveDownload ==
    [][ \A f \in EntriesFromRoot(drive, last'.path) :
          ( /\ last'.op = "download_from_drive"
            /\ EntriesFromRoot(drive, last'.path) = {f}
            /\ drive[f].mimeType = FolderMime
            /\ PlainTree(drive, f) )
          => ( /\ last'.exc = "none"
               /\ Mirrors(last'.local, drive, f, last'.path2) ) ]_vars

(***************************************************************************)
(* Concurrent callers of utils/drive_utils.py.  Each caller runs           *)
(* get_folder_id or upload_to_drive; every remote call (files().list,      *)
(* files().create, files().update) is one atomic step, and what a caller   *)
(* does between two remote calls belongs to the step of the first.  A      *)
(* frame records in saw the segments <<parent, name>> its list call found  *)
(* absent and in made the ids of the folders it created.                   *)
(***************************************************************************)
RacePaths == [get_folder_id   |-> {P_Metal, P_x_jpg},
              upload_to_drive |-> {P_README, P_x_jpg}]

\* where the caller goes when the folder walk has no part left
AfterWalk(f) == IF f.op = "upload_to_drive" THEN "file_list" ELSE "done"

\* the call starts: parts = path.strip("/").split("/"), current_parent = "root"
RStart(c) ==
    /\ race[c].pc = "idle"
    /\ \E op \in DOMAIN RacePaths, content \in Contents :
         \E path \in RacePaths[op] :
           LET folder_path == IF op = "upload_to_drive" THEN os_path_split(path)[1]
                              ELSE path
           IN  race' = [race EXCEPT ![c] =
                          [IdleFrame EXCEPT
                             !.pc = "list", !.op = op,
                             !.parts = split(strip(folder_path)),
                             !.current_parent = Root,
                             !.filename = IF op = "upload_to_drive"
                                          THEN os_path_split(path)[2] ELSE Empty,
                             !.content = IF op = "upload_to_drive"
                                         THEN content ELSE NoContent]]
    /\ UNCHANGED <<drive, nextId, last, clf>>

\* files().list for the next part; a match is entered, no match leads to create
RList(c) ==
    LET f     == race[c]
        part  == Head(f.parts)
        files == ListFoldersNamed(drive, part, f.current_parent)
    IN  /\ f.pc = "list"
        /\ IF files # {}
           THEN \E id \in files :
                  race' = [race EXCEPT ![c] =
                             [f EXCEPT !.current_parent = id, !.parts = Tail(f.parts),
                                       !.pc = IF Tail(f.parts) = <<>> THEN AfterWalk(f)
                                              ELSE "list"]]
           ELSE race' = [race EXCEPT ![c] =
                           [f EXCEPT !.pc = "create",
                                     !.saw = f.saw \cup {<<f.current_parent, part>>}]]
        /\ UNCHANGED <<drive, nextId, last, clf>>

\* a create that lists again and enters a folder another caller has made
RCreate_recheck(c) ==
    LET f     == race[c]
        part  == Head(f.parts)
        files == ListFoldersNamed(drive, part, f.current_parent)
        pc    == IF Tail(f.parts) = <<>> THEN AfterWalk(f) ELSE "list"
    IN  /\ f.pc = "create"
        /\ nextId <= MaxId
        /\ IF files # {}
           THEN \E id \in files :
                  /\ race' = [race EXCEPT ![c] =
                                [f EXCEPT !.current_parent = id,
                                          !.parts = Tail(f.parts), !.pc = pc]]
                  /\ UNCHANGED <<drive, nextId>>
           ELSE /\ drive' = Create(drive, nextId,
                                   Entry(part, FolderMime, f.current_parent, NoContent))
                /\ nextId' = nextId + 1
                /\ race' = [race EXCEPT ![c] =
                              [f EXCEPT !.current_parent = nextId,
                                        !.parts = Tail(f.parts),
                                        !.made = f.made \cup {nextId}, !.pc = pc]]
        /\ UNCHANGED <<last, clf>>

\* files().create of the folder for the part that was found absent
RCreate(c) ==
    LET f    == race[c]
        part == Head(f.parts)
    IN  /\ f.pc = "create"
        /\ nextId <= MaxId
        /\ drive' = Create(drive, nextId,
                           Entry(part, FolderMime, f.current_parent, NoContent))
        /\ nextId' = nextId + 1
        /\ race' = [race EXCEPT ![c] =
                      [f EXCEPT !.current_parent = nextId, !.parts = Tail(f.parts),
                                !.made = f.made \cup {nextId},
                                !.pc = IF Tail(f.parts) = <<>> THEN AfterWalk(f)
                                       ELSE "list"]]
        /\ UNCHANGED <<last, clf>>

\* upload_to_drive: files().list for the file name in the folder resolved
RFileList(c) ==
    LET f     == race[c]
        files == ListNamed(drive, f.filename, f.current_parent)
    IN  /\ f.pc = "file_list"
        /\ IF files # {}
           THEN \E id \in files :
                  race' = [race EXCEPT ![c] = [f EXCEPT !.file_id = id, !.pc = "file_write"]]
           ELSE race' = [race EXCEPT ![c] = [f EXCEPT !.file_id = None, !.pc = "file_write"]]
        /\ UNCHANGED <<drive, nextId, last, clf>>

\* upload_to_drive: files().update of the file found, or files().create
RFileWrite(c) ==
    LET f == race[c]
    IN  /\ f.pc = "file_write"
        /\ IF f.file_id # None
           THEN /\ drive' = IF drive[f.file_id].mimeType = FolderMime THEN drive
                            ELSE [drive EXCEPT ![f.file_id].content = f.content]
                /\ nextId' = nextId
           ELSE /\ nextId <= MaxId
                /\ drive' = Create(drive, nextId,
                                   Entry(f.filename, FileMime, f.current_parent, f.content))
                /\ nextId' = nextId + 1
        /\ race' = [race EXCEPT ![c] = [f EXCEPT !.pc = "done"]]
        /\ UNCHANGED <<last, clf>>

InitRace ==
    /\ last = NoCall
    /\ race = RaceIdle
    /\ clf = ClfIdle
    /\ nextId = 2
    /\ \/ drive = (Root :> RootEntry)
       \/ drive = (Root :> RootEntry) @@ (1 :> Entry(dataset, FolderMime, Root, NoContent))

NextRace ==
    \E c \in Callers :
      \/ RStart(c)
      \/ RList(c)
      \/ RCreate(c)
      \/ RFileList(c)
      \/ RFileWrite(c)

SpecRace == InitRace /\ [][NextRace]_vars

(***************************************************************************)
(* C17 (path-resolution race): when two concurrent callers of the          *)
(* get-or-create resolver or of upload_to_drive have both found the same   *)
(* segment absent under the same parent and both have gone past it, each   *)
(* has created a folder for it: two different folders with that name lie   *)
(* under that parent.  Nothing in the code makes the second caller look    *)
(* again.                                                                  *)
(***************************************************************************)
\* caller c has gone past the segment seg it found absent: it is not about to
\* create it
Past(c, seg) ==
    /\ seg \in race[c].saw
    /\ ~(race[c].pc = "create" /\ <<race[c].current_parent, Head(race[c].parts)>> = seg)

C17_BothCreate ==
    \A seg \in race[1].saw \cap race[2].saw :
      (Past(1, seg) /\ Past(2, seg))
      => \E i \in race[1].made, j \in race[2].made :
           /\ i # j
           /\ drive[i].name = seg[2] /\ drive[j].name = seg[2]
           /\ drive[i].parents = {seg[1]} /\ drive[j].parents = {seg[1]}
           /\ drive[i].mimeType = FolderMime /\ drive[j].mimeType = FolderMime
           /\ ~drive[i].trashed /\ ~drive[j].trashed

\* both callers have returned and left two folders named Metal under the anchor
C17_Witness ==
    /\ race[1].pc = "done" /\ race[2].pc = "done"
    /\ \E a \in Anchors(drive) :
         /\ <<a, Metal>> \in race[1].saw \cap race[2].saw
         /\ Cardinality(ListFoldersNamed(drive, Metal, a)) = 2

(***************************************************************************)
(* models/classifier.py: classify_image and predict_image_file.  The       *)
(* network and the colour clustering are not modelled: the predicted class *)
(* index is any index of the network's output, and the result keeps the    *)
(* two fields computed from it, label and hierarchy.  class_names is the   *)
(* list read from class_names.json, or None when the file is absent.       *)
(***************************************************************************)
MaxNameLen == 3     \* characters of a generated class name
MaxClasses == 2     \* class names loaded, and outputs of the network

unknown == <<"u","n","k","n","o","w","n">>
Plastic_Bottle_Coke ==
    <<"P","l","a","s","t","i","c","_","B","o","t","t","l","e","_","C","o","k","e">>

NameChars  == {"A", "_"}
ClassNames == UNION {[1..k -> NameChars] : k \in 0..MaxNameLen} \cup {Plastic_Bottle_Coke}
ClassNameLists == UNION {[1..k -> ClassNames] : k \in 0..MaxClasses}

\* str.split(sep) for a separator of one character
RECURSIVE str_split(_, _)
str_split(s, sep) ==
    LET idx == {i \in 1..Len(s) : s[i] = sep}
    IN  IF idx = {} THEN <<s>>
        ELSE LET i == CHOOSE k \in idx : \A j \in idx : k <= j
             IN  <<SliceTo(s, i - 1)>> \o str_split(SliceFrom(s, i), sep)

\* a classify_image that takes the first element of the hierarchy as the label
classify_image_first(loaded, class_names, class_idx) ==
    IF loaded /\ class_names # <<>> /\ class_idx >= Len(class_names)
    THEN [exc |-> "IndexError", result |-> <<>>]
    ELSE LET hierarchy == IF loaded /\ class_names # <<>>
                          THEN str_split(class_names[class_idx + 1], "_")
                          ELSE <<unknown>>
         IN  [exc |-> "none",
              result |-> [label |-> hierarchy[1], hierarchy |-> hierarchy]]

\* classify_image: class_names[class_idx] raises IndexError past the end
classify_image(loaded, class_names, class_idx) ==
    IF loaded /\ class_names # <<>> /\ class_idx >= Len(class_names)
    THEN [exc |-> "IndexError", result |-> <<>>]
    ELSE LET hierarchy == IF loaded /\ class_names # <<>>
                          THEN str_split(class_names[class_idx + 1], "_")
                          ELSE <<unknown>>
         IN  [exc |-> "none",
              result |-> [label |-> hierarchy[Len(hierarchy)], hierarchy |-> hierarchy]]

\* predict_image_file: {"objects": [classification]}
predict_image_file(loaded, class_names, class_idx) ==
    LET classification == classify_image(loaded, class_names, class_idx)
    IN  IF classification.exc # "none"
        THEN [exc |-> classification.exc, result |-> <<>>, objects |-> <<>>]
        ELSE [exc |-> "none", result |-> classification.result,
              objects |-> <<classification.result>>]

ClassifyImage ==
    /\ \E class_idx \in 0..(MaxClasses - 1) :
         LET r == classify_image(clf.loaded, clf.class_names, class_idx)
         IN  clf' = [clf EXCEPT !.op = "classify_image", !.class_idx = class_idx,
                                !.exc = r.exc, !.result = r.result, !.objects = <<>>]
    /\ UNCHANGED <<drive, nextId, last, race>>

PredictImageFile ==
    /\ \E class_idx \in 0..(MaxClasses - 1) :
         LET r == predict_image_file(clf.loaded, clf.class_names, class_idx)
         IN  clf' = [clf EXCEPT !.op = "predict_image_file", !.class_idx = class_idx,
                                !.exc = r.exc, !.result = r.result,
                                !.objects = r.objects]
    /\ UNCHANGED <<drive, nextId, last, race>>

\* the module has been imported: class_names.json was read, or was absent
InitClassify ==
    /\ drive = (Root :> RootEntry)
    /\ nextId = 2
    /\ last = NoCall
    /\ race = RaceIdle
    /\ \/ \E names \in ClassNameLists :
            clf = [ClfIdle EXCEPT !.loaded = TRUE, !.class_names = names]
       \/ clf = ClfIdle

NextClassify ==
    \/ ClassifyImage
    \/ PredictImageFile

SpecClassify == InitClassify /\ [][NextClassify]_vars

(***************************************************************************)
(* C18 (classification label and hierarchy): a call that returns has, when *)
(* class names are loaded, a hierarchy that is the class name of the       *)
(* predicted index cut at every "_" (its elements hold no "_" and joined   *)
(* with "_" give the class name back), and otherwise the hierarchy         *)
(* ["unknown"]; the label is the last element of the hierarchy; a call     *)
(* whose predicted index names a class returns; predict_image_file returns *)
(* {"objects": [result]} with that one result.                             *)
(***************************************************************************)
RECURSIVE JoinWith(_, _)
JoinWith(parts, sep) ==
    IF Len(parts) = 1 THEN parts[1]
    ELSE parts[1] \o <<sep>> \o JoinWith(Tail(parts), sep)

NamesLoaded == clf.loaded /\ clf.class_names # <<>>

C18_LabelHierarchy ==
    clf.op # "none" =>
      /\ (NamesLoaded => clf.class_idx < Len(clf.class_names)) => clf.exc = "none"
      /\ clf.exc = "none" =>
           LET h == clf.result.hierarchy
           IN  /\ Len(h) >= 1
               /\ IF NamesLoaded
                  THEN /\ JoinWith(h, "_") = clf.class_names[clf.class_idx + 1]
                       /\ \A k \in 1..Len(h) : \A j \in 1..Len(h[k]) : h[k][j] # "_"
                  ELSE h = <<unknown>>
               /\ clf.result.label = h[Len(h)]
               /\ clf.op = "predict_image_file" => clf.objects = <<clf.result>>

\* predict_image_file has classified an image of class "Plastic_Bottle_Coke"
C18_Witness ==
    /\ clf.op = "predict_image_file"
    /\ clf.exc = "none"
    /\ NamesLoaded
    /\ clf.class_names[clf.class_idx + 1] = Plastic_Bottle_Coke
    /\ Len(clf.result.hierarchy) = 3
    /\ clf.result.label = <<"C","o","k","e">>

(***************************************************************************)
(* C19 (category scan): get_categories returns, changes nothing in the     *)
(* remote store, returns {} when no folder named "dataset" lies directly   *)
(* under Root, and otherwise returns a mapping that mirrors the folder     *)
(* tree below a dataset anchor: at every level the keys are exactly the    *)
(* names of the non-trashed child folders, files left out, and the value   *)
(* of a key is the mapping of a child folder with that name.               *)
(***************************************************************************)
\* the non-trashed child folders of folder f
ChildFolders(t, f) ==
    {i \in DOMAIN t : f \in t[i].parents /\ t[i].mimeType = FolderMime /\ ~t[i].trashed}

RECURSIVE MirrorsFolders(_, _, _)
MirrorsFolders(cats, t, f) ==
    /\ DOMAIN cats = {t[i].name : i \in ChildFolders(t, f)}
    /\ \A name \in DOMAIN cats :
         \E i \in ChildFolders(t, f) :
           t[i].name = name /\ MirrorsFolders(cats[name], t, i)

C19_CategoryScan ==
    [][ last'.op = "get_categories"
        => ( /\ last'.exc = "none"
             /\ drive' = drive
             /\ IF Anchors(drive) = {} THEN DOMAIN last'.cats = {}
                ELSE \E a \in Anchors(drive) : MirrorsFolders(last'.cats, drive, a) ) ]_vars

\* get_categories has returned {"Metal": {"Zinc": {}}} for an anchor that also
\* holds a file
C19_Witness ==
    /\ last.op = "get_categories"
    /\ DOMAIN last.cats = {Metal}
    /\ DOMAIN last.cats[Metal] = {Zinc}
    /\ DOMAIN last.cats[Metal][Zinc] = {}
    /\ \E a \in Anchors(drive) :
         \E i \in ListChildren(drive, a) : drive[i].mimeType # FolderMime

(***************************************************************************)
(* C20 (a failed operation leaves the remote tree unchanged): a call that  *)
(* reports failure, by raising, by returning None from move_in_drive, or   *)
(* by the "not found" return of a file download, has created, renamed,     *)
(* re-parented and deleted nothing: the remote store is as it was before   *)
(* the call.                                                               *)
(***************************************************************************)
Failed(call) ==
    \/ call.exc # "none"
    \/ call.op = "move_in_drive" /\ call.ret = None
    \/ /\ call.op = "download_from_drive"
       /\ splitext_ext(call.path) # Empty
       /\ call.entry = None

C20_FailureLeavesTree ==
    [][ Failed(last') => drive' = drive ]_vars

(***************************************************************************)
(* C21 (sibling names stay unique under single-caller use): the calls      *)
(* being made one after the other, from a store in which no folder has two *)
(* non-trashed children with the same name, no folder ever has two         *)
(* non-trashed children with the same name, whatever their types.          *)
(***************************************************************************)
SiblingNamesUnique(t) ==
    \A i, j \in DOMAIN t :
      ( /\ ~t[i].trashed /\ ~t[j].trashed
        /\ t[i].name = t[j].name
        /\ t[i].parents \cap t[j].parents # {} )
      => i = j

C21_SiblingNamesUnique ==
    [][ ( /\ last'.op \in {"get_folder_id", "resolve_dataset_path", "upload_to_drive",
                           "move_in_drive", "delete_from_drive"}
          /\ SiblingNamesUnique(drive) )
        => SiblingNamesUnique(drive') ]_vars

====
